---- MODULE Spec2Model ----
(***************************************************************************)
(* Model of the Kinetic Panel Terraform provider: the Transport Client    *)
(* (client.go), the server Resource Adapter (resource_server.go), the six  *)
(* action-type Resource Adapters, and the utilization Query Adapter.       *)
(*                                                                         *)
(* Go strings that the code concatenates, formats or searches are tuples   *)
(* of one-character strings, so that strings.Contains, strconv.FormatInt   *)
(* and "+" are computed as the code computes them.  Strings that the code  *)
(* only copies are TLA+ strings.                                           *)
(***************************************************************************)
EXTENDS Integers, Sequences, FiniteSets, TLC

VARIABLES
    provider,  \* the provider configuration Configure was given
    query,     \* the configuration of the activity-logs data source, if there is one
    running,   \* the handlers the host runs concurrently and the client they share
    kind,      \* the resource type of the Managed Record this behaviour reconciles
    tracked,   \* the host's tracked state of that record (tfsdk.State)
    world,     \* the remote API: its servers, the next id it assigns, its console log
    pending,   \* a replacement in progress: the plan to Create after the Delete
    issued,    \* history: the synthetic identities the adapters have assigned
    last       \* history: the last handler invocation and what it returned

vars == <<provider, query, running, kind, tracked, world, pending, issued, last>>

----------------------------------------------------------------------------
(* Bounds *)

MaxServers == 2      \* POST /servers is answered 2xx at most this many times
MaxEntries == 3      \* the data array of the websocket endpoint has at most this many entries

----------------------------------------------------------------------------
(* Character sequences *)

SERVERS       == <<"/","s","e","r","v","e","r","s">>
SERVERS_SLASH == SERVERS \o <<"/">>
API_APPLICATION == <<"/","a","p","i","/","a","p","p","l","i","c","a","t","i","o","n">>
API_CLIENT      == <<"/","a","p","i","/","c","l","i","e","n","t">>
API_ERROR     == <<"A","P","I"," ","e","r","r","o","r"," ">>
S404          == <<"4","0","4">>
BEARER        == <<"B","e","a","r","e","r"," ">>

DigitChars == <<"0","1","2","3","4","5","6","7","8","9">>

\* strconv.FormatInt(n, 10) and fmt's %d, for n >= 0
RECURSIVE FormatInt(_)
FormatInt(n) ==
    IF n < 10 THEN <<DigitChars[n + 1]>>
    ELSE FormatInt(n \div 10) \o <<DigitChars[(n % 10) + 1]>>

\* strings.Contains(s, sub)
Contains(s, sub) ==
    \E i \in 0..(Len(s) - Len(sub)) : SubSeq(s, i + 1, i + Len(sub)) = sub

\* the one element of a singleton: { e(x) : x \in {v} } names v once as x
Only(S) == CHOOSE x \in S : TRUE

\* strings.Split(s, sep) for a one-character separator
RECURSIVE Split(_, _)
Split(s, sep) ==
    IF \A i \in 1..Len(s) : s[i] # sep THEN <<s>>
    ELSE LET i == CHOOSE j \in 1..Len(s) :
                      s[j] = sep /\ \A k \in 1..(j - 1) : s[k] # sep
         IN  <<SubSeq(s, 1, i - 1)>> \o Split(SubSeq(s, i + 1, Len(s)), sep)

HasPrefix(s, p) == Len(s) >= Len(p) /\ SubSeq(s, 1, Len(p)) = p

\* strings.TrimRight(s, "/")
RECURSIVE TrimRightSlash(_)
TrimRightSlash(s) ==
    IF Len(s) > 0 /\ s[Len(s)] = "/" THEN TrimRightSlash(SubSeq(s, 1, Len(s) - 1))
    ELSE s

IsDigit(c) == \E i \in 1..10 : DigitChars[i] = c
DigitVal(c) == (CHOOSE i \in 1..10 : DigitChars[i] = c) - 1

RECURSIVE ParseInt(_)
ParseInt(s) ==
    IF Len(s) = 0 THEN 0
    ELSE ParseInt(SubSeq(s, 1, Len(s) - 1)) * 10 + DigitVal(s[Len(s)])

----------------------------------------------------------------------------
(* The remote API and the outcomes of one HTTP round trip *)

OkStatuses   == {200, 299}
FailStatuses == {199, 300, 404, 500}

\* response bodies of failed calls, as string(bodyBytes) renders them
ErrBodies == { <<"n","o">>, <<"i","d"," ","4","0","4">> }

\* how a 2xx body relates to the server the remote holds
BodyVariants == {"honest", "drift", "noid", "malformed"}

ServerFields == {"id", "name", "user", "egg", "location", "node",
                 "memory", "disk", "cpu", "docker_image", "startup"}

NoAttrs == [id |-> 0, name |-> "", user |-> 0, egg |-> 0, location |-> 0,
            node |-> 0, memory |-> 0, disk |-> 0, cpu |-> 0,
            docker_image |-> "", startup |-> ""]

\* a response body: its text (read on failure) and its JSON content (read on success)
TextBody(t) == [text |-> t, wf |-> FALSE, present |-> {}, attrs |-> NoAttrs]
JsonBody(present, attrs) == [text |-> <<>>, wf |-> TRUE, present |-> present, attrs |-> attrs]

\* the environment's choice for one round trip: no response at all, a failure
\* status with a body, or a 2xx status with a body variant
Choices ==
    {[k |-> "transport", status |-> 0, v |-> "none", text |-> <<"E","O","F">>]}
    \cup [k : {"response"}, status : FailStatuses, v : {"text"}, text : {<<"n","o">>}]
    \cup [k : {"response"}, status : {500}, v : {"text"}, text : ErrBodies]
    \cup [k : {"response"}, status : {200}, v : BodyVariants, text : {<<>>}]
    \cup [k : {"response"}, status : OkStatuses, v : {"honest"}, text : {<<>>}]

PATH_WEBSOCKET == <<"/","w","e","b","s","o","c","k","e","t">>

\* the escape character \x1b, one character of a line
ESC == "ESC"

\* the entries GET /servers/{id}/websocket can carry: console output with and
\* without colour codes, another event, a blank line, and a line of colour
\* codes around a blank
BOOT_OK == <<ESC,"[","3","2","m","b","o","o","t"," ","o","k",ESC,"[","0","m">>
READY   == <<"r","e","a","d","y">>
Entries ==
    { [event |-> "console output", args |-> <<BOOT_OK>>, timestamp |-> "t1"],
      [event |-> "console output", args |-> <<READY>>, timestamp |-> "t2"],
      [event |-> "status", args |-> <<<<"u","p">>>>, timestamp |-> "t3"],
      [event |-> "console output", args |-> <<<<" "," ">>>>, timestamp |-> "t4"],
      [event |-> "console output", args |-> <<<<ESC,"[","0","m"," ",ESC,"[","0","m">>>>,
       timestamp |-> "t5"] }

\* the data arrays the remote can hold, oldest entry first
Feeds == UNION { [1..n -> Entries] : n \in 0..MaxEntries }

LogsBody(data) ==
    [text |-> <<>>, wf |-> TRUE, present |-> {"data"}, attrs |-> NoAttrs, data |-> data]

\* the statuses next to the limits of the 2xx range are drawn for every caller
\* of the client but the server adapter
ChoicesOf(k) ==
    IF k = "server" THEN {x \in Choices : x.status \notin {199, 299, 300}}
    ELSE IF k = "logs" THEN {x \in Choices : x.status \in {0, 200, 404}}
    ELSE Choices

\* the 2xx body the remote sends for server record rec
VariantBody(rec, v) ==
    CASE v = "honest"    -> JsonBody(ServerFields, rec)
      [] v = "drift"     -> JsonBody(ServerFields, [rec EXCEPT !.id = rec.id + 1])
      [] v = "noid"      -> JsonBody(ServerFields \ {"id"}, rec)
      [] OTHER           -> TextBody(<<"<">>)

\* an int64 byte count mb * 2^20 + rem, kept as the pair so that counts of
\* 2^31 and above can be written
Bytes(mb, rem) == [mb |-> mb, rem |-> rem]

\* the byte counts the utilization endpoint reports: 0, 1, the two counts next
\* to 0.005 MB, 0.125 MB, 1.5 MiB, 1 GiB, 2^31 - 1 and 2^31
UsageCounts ==
    { Bytes(0, 0), Bytes(0, 1), Bytes(0, 5242), Bytes(0, 5243), Bytes(0, 131072),
      Bytes(1, 524288), Bytes(1024, 0), Bytes(2047, 1048575), Bytes(2048, 0) }

DefaultUsage == [memory |-> Bytes(1024, 0), disk |-> Bytes(1, 524288)]

\* the body of GET /servers/{id}/utilization
UsageBody(usage) ==
    JsonBody({"memory", "disk", "cpu"},
             [NoAttrs EXCEPT !.memory = usage.memory, !.disk = usage.disk, !.cpu = 7])

\* which endpoint a request addresses
Route(method, path) ==
    IF method = "POST" /\ path = SERVERS THEN [ep |-> "create", id |-> 0]
    ELSE IF /\ HasPrefix(path, SERVERS_SLASH)
            /\ Len(path) > Len(SERVERS_SLASH)
            /\ \A i \in (Len(SERVERS_SLASH) + 1)..Len(path) : IsDigit(path[i])
         THEN [ep |-> "server",
               id |-> ParseInt(SubSeq(path, Len(SERVERS_SLASH) + 1, Len(path)))]
         ELSE IF method = "GET" /\ Contains(path, PATH_WEBSOCKET)
              THEN [ep |-> "logs", id |-> 0]
              ELSE [ep |-> "other", id |-> 0]

\* the server record the remote stores for a creation or update payload
Stored(id, payload) ==
    [id |-> id, name |-> payload.name, user |-> payload.user, egg |-> payload.egg,
     location |-> payload.location, node |-> payload.node, memory |-> payload.memory,
     disk |-> payload.disk, cpu |-> payload.cpu,
     docker_image |-> payload.docker_image, startup |-> payload.startup]

Without(f, x) == [y \in (DOMAIN f) \ {x} |-> f[y]]

(* c.httpClient.Do(req) followed by io.ReadAll: what comes back for req when  *)
(* the environment chooses ch, and the remote state afterwards.  A failure is *)
(* possible on every request; a 2xx answer needs the addressed server to      *)
(* exist and has the effect of the request.                                   *)
Respond(w, req, ch) ==
    Only({
        IF ch.k = "transport" \/ ch.status \in FailStatuses THEN fail
        ELSE IF r.ep = "create" THEN
            [legit |-> w.made < MaxServers,
             world |-> [w EXCEPT !.servers = (w.nextId :> Stored(w.nextId, req.payload[1]))
                                              @@ w.servers,
                                 !.nextId = w.nextId + 1,
                                 !.made = w.made + 1],
             status |-> ch.status, transport |-> FALSE,
             body |-> VariantBody(Stored(w.nextId, req.payload[1]), ch.v)]
        ELSE IF r.ep = "server" THEN
            IF r.id \notin DOMAIN w.servers
            THEN [fail EXCEPT !.legit = FALSE]
            ELSE IF req.method = "GET" THEN
                [legit |-> TRUE, world |-> w, status |-> ch.status, transport |-> FALSE,
                 body |-> VariantBody(w.servers[r.id], ch.v)]
            ELSE IF req.method = "PATCH" THEN
                [legit |-> ch.v = "honest",
                 world |-> [w EXCEPT !.servers =
                               [w.servers EXCEPT ![r.id] = Stored(r.id, req.payload[1])]],
                 status |-> ch.status, transport |-> FALSE,
                 body |-> VariantBody(Stored(r.id, req.payload[1]), ch.v)]
            ELSE IF req.method = "DELETE" THEN
                [legit |-> ch.v = "honest",
                 world |-> [w EXCEPT !.servers = Without(w.servers, r.id)],
                 status |-> ch.status, transport |-> FALSE,
                 body |-> JsonBody({}, NoAttrs)]
            ELSE [fail EXCEPT !.legit = FALSE]
        ELSE IF r.ep = "logs" THEN
            [legit |-> ch.v \in {"honest", "malformed"}, world |-> w,
             status |-> ch.status, transport |-> FALSE,
             body |-> IF ch.v = "honest" THEN LogsBody(w.log) ELSE TextBody(<<"<">>)]
        ELSE IF req.method = "GET" THEN
            \* the self-service reads
            [legit |-> ch.v \in {"honest", "malformed"}, world |-> w,
             status |-> ch.status, transport |-> FALSE,
             body |-> IF ch.v = "honest" THEN UsageBody(w.usage) ELSE TextBody(<<"<">>)]
        ELSE
            \* the action endpoints
            [legit |-> ch.v = "honest", world |-> w, status |-> ch.status,
             transport |-> FALSE, body |-> JsonBody({}, NoAttrs)]
        : r \in {Route(req.method, req.path)},
          fail \in {[legit |-> TRUE, world |-> w, status |-> ch.status,
                     transport |-> (ch.k = "transport"), body |-> TextBody(ch.text)]} })

----------------------------------------------------------------------------
(* Transport Client (client.go) *)

\* an optional attribute: unset, or set to v
Null(v)  == [null |-> TRUE, v |-> v]
Known(v) == [null |-> FALSE, v |-> v]

Host   == <<"h","/">>
APIKey == <<"k">>
DEFAULT_HOST == <<"h","t","t","p","s",":","/","/","k","i","n","e","t","i","c","p","a","n","e","l",".","n","e","t">>

\* variant of NewClient with the two API prefixes exchanged
NewClientSwapped(host, apiKey, isApplication) ==
    [BaseURL |-> TrimRightSlash(host) \o
                 (IF isApplication THEN API_CLIENT ELSE API_APPLICATION),
     APIKey  |-> apiKey]

NewClient(host, apiKey, isApplication) ==
    [BaseURL |-> TrimRightSlash(host) \o
                 (IF isApplication THEN API_APPLICATION ELSE API_CLIENT),
     APIKey  |-> apiKey]


\* the configurations Configure is given, and the value of the environment
\* variable KINETICPANEL_API_KEY: host "" is an unset host, a key "" an unset key
DefaultConfig == [host |-> Host, api_key |-> APIKey, env |-> <<>>,
                  use_application |-> Null(FALSE)]
Configs == [host : {Host, <<>>}, api_key : {APIKey, <<>>}, env : {<<>>, <<"e">>},
            use_application : {Null(FALSE), Known(TRUE), Known(FALSE)}]

\* what Configure leaves in its response: diagnostics, and in ResourceData and
\* DataSourceData the client, if one was constructed
Configured(diags, clients) == [diags |-> diags, client |-> clients]

\* variant of Configure in which the environment value overrides the explicit key
ConfigureEnvFirst(config) ==
    Only({
        IF apiKey = <<>>
        THEN Configured(<<"Missing configuration">>, <<>>)
        ELSE Configured(<<>>, <<NewClient(IF config.host = <<>> THEN DEFAULT_HOST
                                          ELSE config.host,
                                          apiKey,
                                          IF config.use_application.null THEN TRUE
                                          ELSE config.use_application.v)>>)
        : apiKey \in {IF config.env = <<>> THEN config.api_key ELSE config.env} })

\* KineticpanelProvider.Configure
Configure(config) ==
    Only({
        IF apiKey = <<>>
        THEN Configured(<<"Missing configuration">>, <<>>)
        ELSE Configured(<<>>, <<NewClient(IF config.host = <<>> THEN DEFAULT_HOST
                                          ELSE config.host,
                                          apiKey,
                                          IF config.use_application.null THEN TRUE
                                          ELSE config.use_application.v)>>)
        : apiKey \in {IF config.api_key = <<>> THEN config.env ELSE config.api_key} })

\* the client every adapter holds once Configure has succeeded
client == Configure(provider).client[1]

\* url.Error's Op for a method, as net/http renders a failed round trip
OpName(method) ==
    CASE method = "GET"    -> <<"G","e","t">>
      [] method = "POST"   -> <<"P","o","s","t">>
      [] method = "PATCH"  -> <<"P","a","t","c","h">>
      [] OTHER             -> <<"D","e","l","e","t","e">>

\* variant of the status test that lets 300 through
IsFailureAbove300(status) == status < 200 \/ status > 300

\* resp.StatusCode < 200 || resp.StatusCode >= 300
IsFailure(status) == status < 200 \/ status >= 300

\* what request hands back: (body, err) and, as history, the request it built,
\* how many times it called httpClient.Do, and the response
Returned(req, rsp, n, ok, b, e) ==
    [ok |-> ok, body |-> b, err |-> e,
     sent |-> [method |-> req.method, path |-> req.path, url |-> req.url,
               payload |-> req.payload,
               authorization |-> req.authorization, accept |-> req.accept,
               contentType |-> req.contentType, attempts |-> n,
               transport |-> rsp.transport, status |-> rsp.status,
               body |-> rsp.body, ok |-> ok, returned |-> b, err |-> e],
     world |-> rsp.world, legit |-> rsp.legit]

\* variant of request that calls httpClient.Do once more after a failure
requestWithRetry(c, method, path, body, w, ch) ==
    Only({
        IF rsp.transport THEN
            Returned(req, rsp, 2, FALSE, TextBody(<<>>),
                     OpName(method) \o <<" ", "\"">> \o req.url \o <<"\"", ":", " ">>
                     \o rsp.body.text)
        ELSE IF IsFailure(rsp.status) THEN
            Returned(req, rsp, 2, FALSE, TextBody(<<>>),
                     API_ERROR \o FormatInt(rsp.status) \o <<":", " ">> \o rsp.body.text)
        ELSE
            Returned(req, rsp, 1, TRUE, rsp.body, <<>>)
        : req \in {[method |-> method, path |-> path, url |-> c.BaseURL \o path,
                    payload |-> body,
                    authorization |-> BEARER \o c.APIKey,
                    accept |-> "application/json",
                    contentType |-> IF body # <<>> THEN "application/json" ELSE ""]},
          rsp \in {Respond(w, [method |-> method, path |-> path, payload |-> body], ch)} })

(* Client.request: one round trip.  body is <<>> for a nil io.Reader and    *)
(* <<payload>> otherwise.  The result carries the text of err.Error() when  *)
(* the call fails; sent records the round trip and what the caller got.     *)
request(c, method, path, body, w, ch) ==
    Only({
        IF rsp.transport THEN
            Returned(req, rsp, 1, FALSE, TextBody(<<>>),
                     OpName(method) \o <<" ", "\"">> \o req.url \o <<"\"", ":", " ">>
                     \o rsp.body.text)
        ELSE IF IsFailure(rsp.status) THEN
            Returned(req, rsp, 1, FALSE, TextBody(<<>>),
                     API_ERROR \o FormatInt(rsp.status) \o <<":", " ">> \o rsp.body.text)
        ELSE
            Returned(req, rsp, 1, TRUE, rsp.body, <<>>)
        : req \in {[method |-> method, path |-> path, url |-> c.BaseURL \o path,
                    payload |-> body,
                    authorization |-> BEARER \o c.APIKey,
                    accept |-> "application/json",
                    contentType |-> IF body # <<>> THEN "application/json" ELSE ""]},
          rsp \in {Respond(w, [method |-> method, path |-> path, payload |-> body], ch)} })

\* variant of AfterRequest in which request keeps the URL it built in its receiver
AfterRequestRebased(c, calls) ==
    IF calls = <<>> THEN c ELSE [c EXCEPT !.BaseURL = calls[Len(calls)].url]

\* the receiver after the requests of a handler: no method assigns a field of c
AfterRequest(c, calls) == c

\* resp.Status as net/http renders it: the code and its reason phrase
StatusText(status) ==
    CASE status = 300 -> <<"M","u","l","t","i","p","l","e"," ","C","h","o","i","c","e","s">>
      [] status = 404 -> <<"N","o","t"," ","F","o","u","n","d">>
      [] status = 500 -> <<"I","n","t","e","r","n","a","l"," ","S","e","r","v","e","r"," ","E","r","r","o","r">>
      [] OTHER        -> <<>>

Status(status) == FormatInt(status) \o <<" ">> \o StatusText(status)

(* Client.DoRequest, the second request method of client.go: Content-Type is *)
(* always set, and a failure status is rendered with resp.Status; the body   *)
(* is read on success only.                                                  *)
DoRequest(c, method, path, body, w, ch) ==
    Only({
        IF rsp.transport THEN
            Returned(req, rsp, 1, FALSE, TextBody(<<>>),
                     OpName(method) \o <<" ", "\"">> \o req.url \o <<"\"", ":", " ">>
                     \o rsp.body.text)
        ELSE IF IsFailure(rsp.status) THEN
            Returned(req, rsp, 1, FALSE, TextBody(<<>>),
                     API_ERROR \o FormatInt(rsp.status) \o <<":", " ">> \o Status(rsp.status))
        ELSE
            Returned(req, rsp, 1, TRUE, rsp.body, <<>>)
        : req \in {[method |-> method, path |-> path, url |-> c.BaseURL \o path,
                    payload |-> body,
                    authorization |-> BEARER \o c.APIKey,
                    accept |-> "application/json",
                    contentType |-> "application/json"]},
          rsp \in {Respond(w, [method |-> method, path |-> path, payload |-> body], ch)} })

Get(c, path, w, ch) == request(c, "GET", path, <<>>, w, ch)

\* payload is <<>> for nil and <<p>> for a value p
Post(c, path, payload, w, ch) == request(c, "POST", path, payload, w, ch)

Patch(c, path, payload, w, ch) == request(c, "PATCH", path, payload, w, ch)

Delete(c, path, w, ch) == request(c, "DELETE", path, <<>>, w, ch)

----------------------------------------------------------------------------
(* tfsdk.State and the result of a handler *)

NullState  == [raw |-> "null", val |-> <<>>]    \* State.RemoveResource / no prior state
ZeroState  == [raw |-> "zero", val |-> <<>>]    \* the zero value of tfsdk.State
StateOf(m) == [raw |-> "set",  val |-> <<m>>]   \* State.Set(ctx, m)

HasRecord(st) == st.raw = "set"

\* what a handler leaves in its response, the requests it sent, the remote afterwards
Result(state, diags, calls, w, legit) ==
    [state |-> state, diags |-> diags, calls |-> calls, world |-> w, legit |-> legit]

HasError(res) == res.diags # <<>>

----------------------------------------------------------------------------
(* Server Resource Adapter (resource_server.go) *)

\* json.Unmarshal(body, &apiResp) into serverAPIResponse: an absent field keeps
\* its zero value
Unmarshal(body) ==
    [ok  |-> body.wf,
     val |-> [f \in ServerFields |->
                 IF f \in body.present THEN body.attrs[f] ELSE NoAttrs[f]]]

modelToPayload(plan) ==
    [name |-> plan.name, user |-> plan.user_id, egg |-> plan.egg_id,
     location |-> plan.location_id, node |-> plan.node_id, memory |-> plan.memory,
     disk |-> plan.disk, cpu |-> plan.cpu, docker_image |-> plan.docker_image,
     startup |-> plan.startup_command]

\* variant of apiToModel with memory and disk exchanged
apiToModelSwapped(a) ==
    [id |-> a.id, name |-> a.name, user_id |-> a.user, egg_id |-> a.egg,
     location_id |-> a.location, node_id |-> a.node, memory |-> a.disk,
     disk |-> a.memory, cpu |-> a.cpu, docker_image |-> a.docker_image,
     startup_command |-> a.startup]

apiToModel(a) ==
    [id |-> a.id, name |-> a.name, user_id |-> a.user, egg_id |-> a.egg,
     location_id |-> a.location, node_id |-> a.node, memory |-> a.memory,
     disk |-> a.disk, cpu |-> a.cpu, docker_image |-> a.docker_image,
     startup_command |-> a.startup]

ServerPath(id) == SERVERS_SLASH \o FormatInt(id)

\* the model an adapter decodes from a 2xx body, or the decoding error
Decoded(call, resp, d) ==
    IF ~d.ok
    THEN Result(resp, <<"JSON Parse Error">>, <<call.sent>>, call.world, call.legit)
    ELSE Result(StateOf(apiToModel(d.val)), <<>>, <<call.sent>>, call.world, call.legit)

\* resp is the response state the handler starts from
ServerCreate(c, plan, resp, w, ch) ==
    Only({
        IF ~call.ok
        THEN Result(resp, <<"API Create Error">>, <<call.sent>>, call.world, call.legit)
        ELSE Decoded(call, resp, Unmarshal(call.body))
        : call \in {Post(c, SERVERS, <<modelToPayload(plan)>>, w, ch[1])} })

\* variant of Read in which every failed GET is an error
ServerReadWithout404(c, state, resp, w, ch) ==
    Only({
        IF ~call.ok
        THEN Result(resp, <<"API Read Error">>, <<call.sent>>, call.world, call.legit)
        ELSE Decoded(call, resp, Unmarshal(call.body))
        : call \in {Get(c, ServerPath(state.id), w, ch[1])} })

ServerRead(c, state, resp, w, ch) ==
    Only({
        IF ~call.ok
        THEN IF Contains(call.err, S404)
             THEN Result(NullState, <<>>, <<call.sent>>, call.world, call.legit)
             ELSE Result(resp, <<"API Read Error">>, <<call.sent>>, call.world, call.legit)
        ELSE Decoded(call, resp, Unmarshal(call.body))
        : call \in {Get(c, ServerPath(state.id), w, ch[1])} })

\* the second half of Update: r.Read into a fresh ReadResponse, whose State
\* replaces the response state
Refreshed(call, rd) ==
    Result(rd.state, rd.diags, <<call.sent>> \o rd.calls, rd.world,
           call.legit /\ rd.legit)

\* variant of Update that returns the plan after the PATCH, without a GET
ServerUpdateWithoutRefresh(c, plan, state, resp, w, ch) ==
    Only({
        IF ~call.ok
        THEN Result(resp, <<"API Update Error">>, <<call.sent>>, call.world, call.legit)
        ELSE Result(StateOf(plan), <<>>, <<call.sent>>, call.world, call.legit)
        : call \in {Patch(c, ServerPath(plan.id), <<modelToPayload(plan)>>, w, ch[1])} })

\* state is req.State, the pre-update record.  The State of the fresh
\* ReadResponse is taken to accept Set and RemoveResource as any State does.
ServerUpdate(c, plan, state, resp, w, ch) ==
    Only({
        IF ~call.ok
        THEN Result(resp, <<"API Update Error">>, <<call.sent>>, call.world, call.legit)
        ELSE Refreshed(call, ServerRead(c, state, ZeroState, call.world, <<ch[2]>>))
        : call \in {Patch(c, ServerPath(plan.id), <<modelToPayload(plan)>>, w, ch[1])} })

\* variant of Delete in which every failed DELETE is an error
ServerDeleteWithout404(c, state, resp, w, ch) ==
    Only({
        IF ~call.ok
        THEN Result(resp, <<"API Delete Error">>, <<call.sent>>, call.world, call.legit)
        ELSE Result(resp, <<>>, <<call.sent>>, call.world, call.legit)
        : call \in {Delete(c, ServerPath(state.id), w, ch[1])} })

ServerDelete(c, state, resp, w, ch) ==
    Only({
        IF ~call.ok /\ ~Contains(call.err, S404)
        THEN Result(resp, <<"API Delete Error">>, <<call.sent>>, call.world, call.legit)
        ELSE Result(resp, <<>>, <<call.sent>>, call.world, call.legit)
        : call \in {Delete(c, ServerPath(state.id), w, ch[1])} })

----------------------------------------------------------------------------
(* Action-type Resource Adapters *)

PATH_POWER     == <<"/","p","o","w","e","r">>
PATH_COMMAND   == <<"/","c","o","m","m","a","n","d">>
PATH_RENAME    == <<"/","s","e","t","t","i","n","g","s","/","r","e","n","a","m","e">>
PATH_DOCKER    == <<"/","s","e","t","t","i","n","g","s","/","d","o","c","k","e","r","-","i","m","a","g","e">>
PATH_REINSTALL == <<"/","s","e","t","t","i","n","g","s","/","r","e","i","n","s","t","a","l","l">>
PATH_VARIABLE  == <<"/","s","t","a","r","t","u","p","/","v","a","r","i","a","b","l","e">>

\* the outcome every action-type Create and Update shares: an error, or the plan
\* with its id set
Acted(call, resp, summary, plan, id) ==
    IF ~call.ok
    THEN Result(resp, <<summary>>, <<call.sent>>, call.world, call.legit)
    ELSE Result(StateOf([plan EXCEPT !.id = id]), <<>>, <<call.sent>>, call.world, call.legit)

\* Read of an action-type resource: the stored state is set again, no request
PassThrough(state, w) == Result(StateOf(state), <<>>, <<>>, w, TRUE)

(* ServerPowerResource (resource_server_power.go) *)

ServerPowerCreate(c, plan, resp, w, ch) ==
    LET pth  == SERVERS_SLASH \o plan.server_id \o PATH_POWER
        call == Post(c, pth, <<[signal |-> plan.signal]>>, w, ch[1])
    IN  Acted(call, resp, "Failed to send power signal", plan, plan.server_id \o <<"-","p","o","w","e","r">>)

ServerPowerRead(c, state, resp, w, ch) == PassThrough(state, w)

ServerPowerUpdate(c, plan, state, resp, w, ch) ==
    LET pth  == SERVERS_SLASH \o plan.server_id \o PATH_POWER
        call == Post(c, pth, <<[signal |-> plan.signal]>>, w, ch[1])
    IN  Acted(call, resp, "Failed to update power signal", plan, plan.server_id \o <<"-","p","o","w","e","r">>)

ServerPowerDelete(c, state, resp, w, ch) == Result(resp, <<>>, <<>>, w, TRUE)

(* ServerCommandResource (resource_server_command.go) *)

ServerCommandCreate(c, plan, resp, w, ch) ==
    LET pth  == SERVERS_SLASH \o plan.server_id \o PATH_COMMAND
        call == Post(c, pth, <<[command |-> plan.command]>>, w, ch[1])
    IN  Acted(call, resp, "Failed to send command", plan, plan.server_id \o <<"-","c","m","d">>)

ServerCommandRead(c, state, resp, w, ch) == PassThrough(state, w)

ServerCommandUpdate(c, plan, state, resp, w, ch) ==
    LET pth  == SERVERS_SLASH \o plan.server_id \o PATH_COMMAND
        call == Post(c, pth, <<[command |-> plan.command]>>, w, ch[1])
    IN  Acted(call, resp, "Failed to update command", plan, plan.server_id \o <<"-","c","m","d">>)

\* variant of Delete that asks the remote to delete the command
ServerCommandDeleteRemote(c, state, resp, w, ch) ==
    Only({
        IF ~call.ok
        THEN Result(resp, <<"Failed to delete command">>, <<call.sent>>, call.world, call.legit)
        ELSE Result(NullState, <<>>, <<call.sent>>, call.world, call.legit)
        : call \in {Delete(c, SERVERS_SLASH \o state.server_id \o PATH_COMMAND, w, ch[1])} })

ServerCommandDelete(c, state, resp, w, ch) == Result(NullState, <<>>, <<>>, w, TRUE)

(* ServerRenameResource (resource_server_rename.go) *)
RenamePayload(plan) ==
    IF plan.description.null THEN [name |-> plan.name]
    ELSE [name |-> plan.name, description |-> plan.description.v]

ServerRenameCreate(c, plan, resp, w, ch) ==
    LET pth  == SERVERS_SLASH \o plan.server_id \o PATH_RENAME
        call == Post(c, pth, <<RenamePayload(plan)>>, w, ch[1])
    IN  Acted(call, resp, "Failed to rename server", plan, plan.server_id \o <<"-","r","e","n","a","m","e">>)

\* variant of Read that stores the record without its description
ServerRenameReadWithoutDescription(c, state, resp, w, ch) ==
    PassThrough([state EXCEPT !.description = Null("")], w)

ServerRenameRead(c, state, resp, w, ch) == PassThrough(state, w)

ServerRenameUpdate(c, plan, state, resp, w, ch) ==
    LET pth  == SERVERS_SLASH \o plan.server_id \o PATH_RENAME
        call == Post(c, pth, <<RenamePayload(plan)>>, w, ch[1])
    IN  Acted(call, resp, "Failed to update server name", plan, plan.server_id \o <<"-","r","e","n","a","m","e">>)

ServerRenameDelete(c, state, resp, w, ch) == Result(NullState, <<>>, <<>>, w, TRUE)

(* ServerDockerImageResource (resource_server_rename.go) *)

ServerDockerImageCreate(c, plan, resp, w, ch) ==
    LET pth  == SERVERS_SLASH \o plan.server_id \o PATH_DOCKER
        call == Post(c, pth, <<[docker_image |-> plan.docker_image]>>, w, ch[1])
    IN  Acted(call, resp, "Failed to update Docker image", plan, plan.server_id \o <<"-","d","o","c","k","e","r">>)

ServerDockerImageRead(c, state, resp, w, ch) == PassThrough(state, w)

ServerDockerImageUpdate(c, plan, state, resp, w, ch) ==
    LET pth  == SERVERS_SLASH \o plan.server_id \o PATH_DOCKER
        call == Post(c, pth, <<[docker_image |-> plan.docker_image]>>, w, ch[1])
    IN  Acted(call, resp, "Failed to update Docker image", plan, plan.server_id \o <<"-","d","o","c","k","e","r">>)

ServerDockerImageDelete(c, state, resp, w, ch) == Result(NullState, <<>>, <<>>, w, TRUE)

(* ServerReinstallResource (unnamed/part_002) *)
ReinstallPayload(plan) ==
    IF plan.force.null THEN [x \in {} |-> FALSE] ELSE [force |-> plan.force.v]

ServerReinstallCreate(c, plan, resp, w, ch) ==
    LET pth  == SERVERS_SLASH \o plan.server_id \o PATH_REINSTALL
        call == Post(c, pth, <<ReinstallPayload(plan)>>, w, ch[1])
    IN  Acted(call, resp, "Failed to trigger reinstall", plan, plan.server_id \o <<"-","r","e","i","n","s","t","a","l","l">>)

ServerReinstallRead(c, state, resp, w, ch) == PassThrough(state, w)

\* variant of Update that sends an empty payload
ServerReinstallUpdateWithoutForce(c, plan, state, resp, w, ch) ==
    LET pth  == SERVERS_SLASH \o plan.server_id \o PATH_REINSTALL
        call == Post(c, pth, <<[x \in {} |-> FALSE]>>, w, ch[1])
    IN  Acted(call, resp, "Failed to update reinstall", plan, plan.server_id \o <<"-","r","e","i","n","s","t","a","l","l">>)

ServerReinstallUpdate(c, plan, state, resp, w, ch) ==
    LET pth  == SERVERS_SLASH \o plan.server_id \o PATH_REINSTALL
        call == Post(c, pth, <<ReinstallPayload(plan)>>, w, ch[1])
    IN  Acted(call, resp, "Failed to update reinstall", plan, plan.server_id \o <<"-","r","e","i","n","s","t","a","l","l">>)

ServerReinstallDelete(c, state, resp, w, ch) == Result(NullState, <<>>, <<>>, w, TRUE)

(* ServerStartupVariableResource (resource_server_startup_variable.go) *)

\* variant of ImportState that takes the first two of any number of parts
ServerStartupVariableImportStateLenient(token, resp, w) ==
    Only({
        IF Len(parts) < 2
        THEN Result(resp, <<"Invalid Import ID">>, <<>>, w, TRUE)
        ELSE Result(StateOf([id |-> <<>>, server_id |-> parts[1], key |-> parts[2],
                             value |-> ""]), <<>>, <<>>, w, TRUE)
        : parts \in {Split(token, ":")} })

\* ImportState: the token is req.ID; the attributes not set stay null (an
\* unknown id is <<>>, a null value is "")
ServerStartupVariableImportState(token, resp, w) ==
    Only({
        IF Len(parts) # 2
        THEN Result(resp, <<"Invalid Import ID">>, <<>>, w, TRUE)
        ELSE Result(StateOf([id |-> <<>>, server_id |-> parts[1], key |-> parts[2],
                             value |-> ""]), <<>>, <<>>, w, TRUE)
        : parts \in {Split(token, ":")} })

\* variant of Create whose id leaves the key out
ServerStartupVariableCreateKeyless(c, plan, resp, w, ch) ==
    LET pth  == SERVERS_SLASH \o plan.server_id \o PATH_VARIABLE
        call == Post(c, pth, <<[key |-> plan.key, value |-> plan.value]>>, w, ch[1])
    IN  Acted(call, resp, "Failed to update startup variable", plan, plan.server_id \o <<"-","v","a","r">>)

ServerStartupVariableCreate(c, plan, resp, w, ch) ==
    LET pth  == SERVERS_SLASH \o plan.server_id \o PATH_VARIABLE
        call == Post(c, pth, <<[key |-> plan.key, value |-> plan.value]>>, w, ch[1])
    IN  Acted(call, resp, "Failed to update startup variable", plan, plan.server_id \o <<"-","v","a","r","-">> \o plan.key)

ServerStartupVariableRead(c, state, resp, w, ch) == PassThrough(state, w)

ServerStartupVariableUpdate(c, plan, state, resp, w, ch) ==
    LET pth  == SERVERS_SLASH \o plan.server_id \o PATH_VARIABLE
        call == Post(c, pth, <<[key |-> plan.key, value |-> plan.value]>>, w, ch[1])
    IN  Acted(call, resp, "Failed to update startup variable", plan, plan.server_id \o <<"-","v","a","r","-">> \o plan.key)

ServerStartupVariableDelete(c, state, resp, w, ch) == Result(NullState, <<>>, <<>>, w, TRUE)

----------------------------------------------------------------------------
(* Utilization Query Adapter (data_server_utilization.go) *)

PATH_UTILIZATION == <<"/","u","t","i","l","i","z","a","t","i","o","n">>

BytesPerMB == 1048576

\* variant of roundTo that cuts the third decimal off
roundToDown(bytes) ==
    100 * bytes.mb + (100 * bytes.rem) \div BytesPerMB

\* roundTo(float64(bytes) / (1024 * 1024), 2), in hundredths of a megabyte:
\* float64(int64(n*factor + 0.5)) / factor with factor = 100; the division by
\* 2^20 and the product with 100 are exact in float64 for these counts
roundTo(bytes) ==
    100 * bytes.mb + (200 * bytes.rem + BytesPerMB) \div (2 * BytesPerMB)

\* apiResp.Memory / (1024 * 1024) of the integer variant: the int64 quotient
Quotient(bytes) == bytes.mb

UtilizationState(config, val, memoryMB, diskMB) ==
    StateOf([server_id |-> config.server_id,
             cpu |-> val.cpu,
             memory |-> val.memory,
             memory_mb |-> memoryMB,
             disk |-> val.disk,
             disk_mb |-> diskMB])

ServerUtilizationRead(c, config, resp, w, ch) ==
    Only({
        IF ~call.ok
        THEN Result(resp, <<"API Error">>, <<call.sent>>, call.world, call.legit)
        ELSE Only({
            IF ~d.ok
            THEN Result(resp, <<"JSON Parse Error">>, <<call.sent>>, call.world, call.legit)
            ELSE Result(UtilizationState(config, d.val, roundTo(d.val.memory),
                                         roundTo(d.val.disk)),
                        <<>>, <<call.sent>>, call.world, call.legit)
            : d \in {Unmarshal(call.body)} })
        : call \in {Get(c, SERVERS_SLASH \o config.server_id \o PATH_UTILIZATION, w, ch[1])} })

\* the variant of the adapter whose memory_mb and disk_mb are Int64 attributes
ServerUtilizationReadInt(c, config, resp, w, ch) ==
    Only({
        IF ~call.ok
        THEN Result(resp, <<"API Error">>, <<call.sent>>, call.world, call.legit)
        ELSE Only({
            IF ~d.ok
            THEN Result(resp, <<"JSON Parse Error">>, <<call.sent>>, call.world, call.legit)
            ELSE Result(UtilizationState(config, d.val, Quotient(d.val.memory),
                                         Quotient(d.val.disk)),
                        <<>>, <<call.sent>>, call.world, call.legit)
            : d \in {Unmarshal(call.body)} })
        : call \in {Get(c, SERVERS_SLASH \o config.server_id \o PATH_UTILIZATION, w, ch[1])} })

----------------------------------------------------------------------------
(* Activity-logs Query Adapter (data_server_activity_logs.go) *)

QUERY_LOGS == <<"?","l","o","g","s","=">>

\* fmt.Sprintf("%d", n)
Sprintf(n) == IF n < 0 THEN <<"-">> \o FormatInt(0 - n) ELSE FormatInt(n)

\* types.Int64.ValueInt64(): 0 for a null value
ValueInt64(x) == IF x.null THEN 0 ELSE x.v

\* lines after the two adjustments of Read
Lines(config) ==
    Only({ IF n = 0 THEN 50 ELSE IF n > 100 THEN 100 ELSE n
           : n \in {ValueInt64(config.lines)} })

IsSpace(ch) == ch \in {" ", "\t", "\n", "\r"}

\* strings.TrimSpace(s)
RECURSIVE TrimSpace(_)
TrimSpace(s) ==
    IF s = <<>> THEN s
    ELSE IF IsSpace(s[1]) THEN TrimSpace(Tail(s))
    ELSE IF IsSpace(s[Len(s)]) THEN TrimSpace(SubSeq(s, 1, Len(s) - 1))
    ELSE s

IsLetter(ch) ==
    ch \in {"a","b","c","d","e","f","g","h","i","j","k","l","m","n","o","p","q","r",
            "s","t","u","v","w","x","y","z",
            "A","B","C","D","E","F","G","H","I","J","K","L","M","N","O","P","Q","R",
            "S","T","U","V","W","X","Y","Z"}

\* the end of the match of \x1b\[[0-9;]*[a-zA-Z] that starts at s[1], or 0:
\* the parameters are the longest run of [0-9;], and a letter has to follow it
MatchEnd(s) ==
    IF Len(s) < 3 \/ s[1] # ESC \/ s[2] # "[" THEN 0
    ELSE Only({ IF j <= Len(s) /\ IsLetter(s[j]) THEN j ELSE 0
                : j \in {CHOOSE j \in 3..(Len(s) + 1) :
                            /\ \A i \in 3..(j - 1) : IsDigit(s[i]) \/ s[i] = ";"
                            /\ j <= Len(s) => ~(IsDigit(s[j]) \/ s[j] = ";")} })

\* stripANSI(str): every match, left to right, replaced by nothing
RECURSIVE stripANSI(_)
stripANSI(str) ==
    IF str = <<>> THEN str
    ELSE Only({ IF e > 0 THEN stripANSI(SubSeq(str, e + 1, Len(str)))
                ELSE <<str[1]>> \o stripANSI(Tail(str))
                : e \in {MatchEnd(str)} })

\* one pass of the loop over apiResp.Data: line is the cleaned first argument
Appended(acc, entry, line) ==
    IF line # <<>>
    THEN [logLines   |-> Append(acc.logLines, line),
          timestamps |-> Append(acc.timestamps, entry.timestamp)]
    ELSE acc

\* the loop over apiResp.Data
RECURSIVE Collect(_)
Collect(data) ==
    IF data = <<>> THEN [logLines |-> <<>>, timestamps |-> <<>>]
    ELSE Only({ IF entry.event = "console output" /\ Len(entry.args) > 0
                THEN Appended(acc, entry, stripANSI(TrimSpace(entry.args[1])))
                ELSE acc
                : acc \in {Collect(SubSeq(data, 1, Len(data) - 1))},
                  entry \in {data[Len(data)]} })

\* variant of the reversal that leaves the order as collected
reverseNot(s) == s

\* the reversal loop: i runs from len/2 - 1 down to 0 and swaps i with its opposite
RECURSIVE reverseFrom(_, _)
reverseFrom(s, i) ==
    IF i < 0 THEN s
    ELSE reverseFrom([s EXCEPT ![i + 1] = s[Len(s) - i], ![Len(s) - i] = s[i + 1]], i - 1)

reverse(s) == reverseFrom(s, (Len(s) \div 2) - 1)

\* json.Unmarshal(body, &apiResp): an absent data array stays empty
UnmarshalLogs(body) ==
    [ok |-> body.wf, data |-> IF "data" \in body.present THEN body.data ELSE <<>>]

\* variant of the result in which only the lines are reversed
LogsStateUnpaired(config, lines, got) ==
    StateOf([server_id  |-> config.server_id,
             lines      |-> lines,
             logs       |-> reverse(got.logLines),
             timestamps |-> got.timestamps])

LogsState(config, lines, got) ==
    StateOf([server_id  |-> config.server_id,
             lines      |-> lines,
             logs       |-> reverse(got.logLines),
             timestamps |-> reverse(got.timestamps)])

ServerActivityLogsRead(c, config, resp, w, ch) ==
    Only({
        IF ~call.ok
        THEN Result(resp, <<"API Error">>, <<call.sent>>, call.world, call.legit)
        ELSE Only({
            IF ~d.ok
            THEN Result(resp, <<"JSON Parse Error">>, <<call.sent>>, call.world, call.legit)
            ELSE Result(LogsState(config, Lines(config), Collect(d.data)),
                        <<>>, <<call.sent>>, call.world, call.legit)
            : d \in {UnmarshalLogs(call.body)} })
        : call \in {Get(c, SERVERS_SLASH \o config.server_id \o PATH_WEBSOCKET
                           \o QUERY_LOGS \o Sprintf(Lines(config)), w, ch[1])} })

----------------------------------------------------------------------------
(* The schemas: which attributes carry RequiresReplace *)

ActionKinds   == {"power", "cmd", "rename", "docker", "reinstall", "var"}
ResourceKinds == {"server"} \cup ActionKinds
QueryKinds    == {"utilization", "utilization_int"}
Kinds         == ResourceKinds \cup QueryKinds \cup {"logs", "client"}

\* the provider's registry: the adapter types the host can instantiate and
\* hand the client to
Resources   == {"server"}
DataSources == {}

RequiresReplace(k) ==
    CASE k = "server" -> {"user_id", "egg_id", "location_id", "node_id"}
      [] k = "var"    -> {"server_id", "key"}
      [] OTHER        -> {"server_id"}

\* the attributes the configuration supplies (everything but the computed id)
ConfiguredAttributes(k) ==
    CASE k = "server"    -> {"name", "user_id", "egg_id", "location_id", "node_id",
                             "memory", "disk", "cpu", "docker_image", "startup_command"}
      [] k = "power"     -> {"server_id", "signal"}
      [] k = "cmd"       -> {"server_id", "command"}
      [] k = "rename"    -> {"server_id", "name", "description"}
      [] k = "docker"    -> {"server_id", "docker_image"}
      [] k = "reinstall" -> {"server_id", "force"}
      [] OTHER           -> {"server_id", "key", "value"}

\* the id format each action-type schema documents for its computed id
DocumentedSuffix(k, plan) ==
    CASE k = "power"     -> <<"-","p","o","w","e","r">>
      [] k = "cmd"       -> <<"-","c","m","d">>
      [] k = "rename"    -> <<"-","r","e","n","a","m","e">>
      [] k = "docker"    -> <<"-","d","o","c","k","e","r">>
      [] k = "reinstall" -> <<"-","r","e","i","n","s","t","a","l","l">>
      [] OTHER           -> <<"-","v","a","r","-">> \o plan.key

----------------------------------------------------------------------------
(* The inputs the host supplies *)

FirstIds == {403}           \* the id the remote assigns to its first server

PlanA == [id |-> 0, name |-> "alpha", user_id |-> 1, egg_id |-> 1, location_id |-> 1,
          node_id |-> 1, memory |-> 1024, disk |-> 2048, cpu |-> 100,
          docker_image |-> "img", startup_command |-> "run"]
PlanB == [PlanA EXCEPT !.name = "beta", !.memory = 2048]
PlanC == [PlanA EXCEPT !.user_id = 2]

SubIds == { <<"a">>, <<"a","-","v","a","r","-","b">> }
Keys   == { <<"c">>, <<"b","-","v","a","r","-","c">> }

Plans(k) ==
    CASE k = "server"    -> {PlanA, PlanB, PlanC}
      [] k = "power"     -> [id : {<<>>}, server_id : SubIds, signal : {"start", "stop"}]
      [] k = "cmd"       -> [id : {<<>>}, server_id : SubIds, command : {"say hi", "stop"}]
      [] k = "rename"    -> [id : {<<>>}, server_id : SubIds, name : {"n1", "n2"},
                             description : {Null(""), Known("d")}]
      [] k = "docker"    -> [id : {<<>>}, server_id : SubIds, docker_image : {"i1", "i2"}]
      [] k = "reinstall" -> [id : {<<>>}, server_id : SubIds,
                             force : {Null(FALSE), Known(FALSE), Known(TRUE)}]
      [] k = "var"       -> [id : {<<>>}, server_id : SubIds, key : Keys,
                             value : {"v1", "v2"}]
      [] k = "logs"      -> [server_id : {<<"a">>},
                             lines : {Null(0), Known(0), Known(100), Known(101),
                                      Known(0 - 1)}]
      [] OTHER           -> [server_id : SubIds]

----------------------------------------------------------------------------
(* Dispatch of the host's calls to the adapter of the record's type *)

\* the resources that implement ImportState
ImportKinds == {"power", "rename", "docker", "var"}

\* the state with only server_id set: every other attribute is null (an unknown
\* id is <<>>, a null string is "")
Passthrough(k, token) ==
    CASE k = "power"  -> [id |-> <<>>, server_id |-> token, signal |-> ""]
      [] k = "rename" -> [id |-> <<>>, server_id |-> token, name |-> "",
                          description |-> Null("")]
      [] OTHER        -> [id |-> <<>>, server_id |-> token, docker_image |-> ""]

\* resource.ImportStatePassthroughID(ctx, path.Root("server_id"), req, resp)
ImportStatePassthroughID(k, token, resp, w) ==
    Result(StateOf(Passthrough(k, token)), <<>>, <<>>, w, TRUE)

DoImport(k, token, resp, w) ==
    IF k = "var" THEN ServerStartupVariableImportState(token, resp, w)
    ELSE ImportStatePassthroughID(k, token, resp, w)

DoCreate(k, plan, resp, w, ch) ==
    CASE k = "server"    -> ServerCreate(client, plan, resp, w, ch)
      [] k = "power"     -> ServerPowerCreate(client, plan, resp, w, ch)
      [] k = "cmd"       -> ServerCommandCreate(client, plan, resp, w, ch)
      [] k = "rename"    -> ServerRenameCreate(client, plan, resp, w, ch)
      [] k = "docker"    -> ServerDockerImageCreate(client, plan, resp, w, ch)
      [] k = "reinstall" -> ServerReinstallCreate(client, plan, resp, w, ch)
      [] OTHER           -> ServerStartupVariableCreate(client, plan, resp, w, ch)

DoRead(k, state, resp, w, ch) ==
    CASE k = "server"    -> ServerRead(client, state, resp, w, ch)
      [] k = "power"     -> ServerPowerRead(client, state, resp, w, ch)
      [] k = "cmd"       -> ServerCommandRead(client, state, resp, w, ch)
      [] k = "rename"    -> ServerRenameRead(client, state, resp, w, ch)
      [] k = "docker"    -> ServerDockerImageRead(client, state, resp, w, ch)
      [] k = "reinstall" -> ServerReinstallRead(client, state, resp, w, ch)
      [] OTHER           -> ServerStartupVariableRead(client, state, resp, w, ch)

DoUpdate(k, plan, state, resp, w, ch) ==
    CASE k = "server"    -> ServerUpdate(client, plan, state, resp, w, ch)
      [] k = "power"     -> ServerPowerUpdate(client, plan, state, resp, w, ch)
      [] k = "cmd"       -> ServerCommandUpdate(client, plan, state, resp, w, ch)
      [] k = "rename"    -> ServerRenameUpdate(client, plan, state, resp, w, ch)
      [] k = "docker"    -> ServerDockerImageUpdate(client, plan, state, resp, w, ch)
      [] k = "reinstall" -> ServerReinstallUpdate(client, plan, state, resp, w, ch)
      [] OTHER           -> ServerStartupVariableUpdate(client, plan, state, resp, w, ch)

DoDelete(k, state, resp, w, ch) ==
    CASE k = "server"    -> ServerDelete(client, state, resp, w, ch)
      [] k = "power"     -> ServerPowerDelete(client, state, resp, w, ch)
      [] k = "cmd"       -> ServerCommandDelete(client, state, resp, w, ch)
      [] k = "rename"    -> ServerRenameDelete(client, state, resp, w, ch)
      [] k = "docker"    -> ServerDockerImageDelete(client, state, resp, w, ch)
      [] k = "reinstall" -> ServerReinstallDelete(client, state, resp, w, ch)
      [] OTHER           -> ServerStartupVariableDelete(client, state, resp, w, ch)

----------------------------------------------------------------------------
(* The host: one handler invocation per step *)

Idle == [k |-> "transport", status |-> 0, v |-> "none", text |-> <<"E","O","F">>]

\* the environment's choices for the round trips of one handler: two for the
\* server's Update (the second only after a 2xx answer to the first), none for
\* the handlers that send nothing, one otherwise
ChoiceSeqs(k, op) ==
    IF k = "server" /\ op = "Update"
    THEN {<<c, Idle>> : c \in {x \in ChoicesOf(k) : x.status \notin OkStatuses}}
         \cup ({x \in ChoicesOf(k) : x.status \in OkStatuses} \X ChoicesOf(k))
    ELSE IF k \in ActionKinds /\ op \in {"Read", "Delete"} THEN {<<Idle, Idle>>}
    ELSE {<<c, Idle>> : c \in ChoicesOf(k)}

\* the choices beyond the handler's last round trip are not used
Canonical(ch, res) == \A i \in 1..2 : i > Len(res.calls) => ch[i] = Idle

\* what is remembered of a handler invocation: the operation, its plan, the
\* state it was given, the state and diagnostics it returned, its round trips,
\* and (for the Create of a replacement) the record the Delete removed
Invocation(op, plan, prior, res, replaced) ==
    [op |-> op, plan |-> plan, prior |-> prior, state |-> res.state,
     diags |-> res.diags, calls |-> res.calls, replaced |-> replaced]

NoInvocation ==
    [op |-> "none", plan |-> <<>>, prior |-> NullState, state |-> NullState,
     diags |-> <<>>, calls |-> <<>>, replaced |-> <<>>]

\* the synthetic identity a successful action-type Create or Update assigned
Issued(plan, res) ==
    IF kind \in ActionKinds /\ ~HasError(res)
    THEN {[p |-> plan.server_id, s |-> DocumentedSuffix(kind, plan),
           id |-> res.state.val[1].id]}
    ELSE {}

Init ==
    /\ kind \in Kinds
    /\ provider \in (IF kind = "client" THEN Configs ELSE {DefaultConfig})
    /\ tracked = NullState
    /\ running = <<>>
    /\ query \in (IF kind = "logs" THEN {<<config>> : config \in Plans(kind)} ELSE {<<>>})
    /\ world \in [servers : {[i \in {} |-> NoAttrs]}, nextId : FirstIds, made : {0},
                  log : IF kind = "logs" THEN Feeds ELSE {<<>>},
                  usage : IF kind \in QueryKinds
                          THEN [memory : UsageCounts, disk : UsageCounts]
                          ELSE {DefaultUsage}]
    /\ pending = <<>>
    /\ issued = {}
    /\ last = NoInvocation

\* Create(plan): the response state starts null; what the handler leaves is saved
HostCreate(plan, ch) ==
    /\ kind \in ResourceKinds
    /\ ~HasRecord(tracked)
    /\ pending # <<>> => pending[1].plan = plan
    /\ \E res \in {DoCreate(kind, plan, NullState, world, ch)} :
        /\ res.legit /\ Canonical(ch, res)
        /\ tracked' = res.state
        /\ world' = res.world
        /\ issued' = issued \cup Issued(plan, res)
        /\ last' = Invocation("Create", <<plan>>, NullState, res,
                              IF pending # <<>> THEN <<pending[1].old>> ELSE <<>>)
    /\ pending' = <<>>
    /\ UNCHANGED <<provider, query, running, kind>>

\* Read: the response state starts as the prior state
HostRead(ch) ==
    /\ kind \in ResourceKinds
    /\ HasRecord(tracked)
    /\ pending = <<>>
    /\ \E res \in {DoRead(kind, tracked.val[1], tracked, world, ch)} :
        /\ res.legit /\ Canonical(ch, res)
        /\ tracked' = res.state
        /\ world' = res.world
        /\ last' = Invocation("Read", <<>>, tracked, res, <<>>)
    /\ UNCHANGED <<provider, query, running, kind, pending, issued>>

\* Update(plan) is planned when no RequiresReplace attribute differs from the
\* prior state and some attribute does; the computed id is planned from the state
HostUpdate(plan, ch) ==
    /\ kind \in ResourceKinds
    /\ HasRecord(tracked)
    /\ pending = <<>>
    /\ \A f \in RequiresReplace(kind) : plan[f] = tracked.val[1][f]
    /\ \E f \in ConfiguredAttributes(kind) : plan[f] # tracked.val[1][f]
    /\ \E p \in {[plan EXCEPT !.id = tracked.val[1].id]} :
       \E res \in {DoUpdate(kind, p, tracked.val[1], tracked, world, ch)} :
        /\ res.legit /\ Canonical(ch, res)
        /\ tracked' = res.state
        /\ world' = res.world
        /\ issued' = issued \cup Issued(p, res)
        /\ last' = Invocation("Update", <<p>>, tracked, res, <<>>)
    /\ UNCHANGED <<provider, query, running, kind, pending>>

\* Delete: the host drops the record when the handler reports no error
HostDelete(ch) ==
    /\ kind \in ResourceKinds
    /\ HasRecord(tracked)
    /\ pending = <<>>
    /\ \E res \in {DoDelete(kind, tracked.val[1], tracked, world, ch)} :
        /\ res.legit /\ Canonical(ch, res)
        /\ tracked' = IF HasError(res) THEN res.state ELSE NullState
        /\ world' = res.world
        /\ last' = Invocation("Delete", <<>>, tracked, res, <<>>)
    /\ UNCHANGED <<provider, query, running, kind, pending, issued>>

\* a plan that changes a RequiresReplace attribute is carried out as Delete,
\* then Create of the plan
HostReplace(plan, ch) ==
    /\ kind \in ResourceKinds
    /\ HasRecord(tracked)
    /\ pending = <<>>
    /\ \E f \in RequiresReplace(kind) : plan[f] # tracked.val[1][f]
    /\ \E res \in {DoDelete(kind, tracked.val[1], tracked, world, ch)} :
        /\ res.legit /\ Canonical(ch, res)
        /\ tracked' = IF HasError(res) THEN res.state ELSE NullState
        /\ world' = res.world
        /\ pending' = IF HasError(res) THEN <<>>
                      ELSE <<[plan |-> plan, old |-> tracked.val[1]]>>
        /\ last' = Invocation("Delete", <<plan>>, tracked, res, <<>>)
    /\ UNCHANGED <<provider, query, running, kind, issued>>

\* a Query Adapter's Read
HostQuery(config, ch) ==
    /\ kind \in QueryKinds
    /\ \E res \in {IF kind = "utilization"
                   THEN ServerUtilizationRead(client, config, NullState, world, ch)
                   ELSE ServerUtilizationReadInt(client, config, NullState, world, ch)} :
        /\ res.legit /\ Canonical(ch, res)
        /\ tracked' = res.state
        /\ world' = res.world
        /\ last' = Invocation("Query", <<config>>, NullState, res, <<>>)
    /\ UNCHANGED <<provider, query, running, kind, pending, issued>>

\* the activity-logs Query Adapter's Read of the configured data source
HostLogs(ch) ==
    /\ kind = "logs"
    /\ \E config \in {query[1]} :
       \E res \in {ServerActivityLogsRead(client, config, NullState, world, ch)} :
        /\ res.legit /\ Canonical(ch, res)
        /\ tracked' = res.state
        /\ world' = res.world
        /\ last' = Invocation("Logs", <<config>>, NullState, res, <<>>)
    /\ UNCHANGED <<provider, query, running, kind, pending, issued>>

\* the import tokens the host passes: one, no, two delimiters, and empty parts
\* ImportState(token): the response state starts null; what the handler leaves
\* is saved
HostImport(token) ==
    /\ kind \in ImportKinds
    /\ ~HasRecord(tracked)
    /\ pending = <<>>
    /\ \E res \in {DoImport(kind, token, NullState, world)} :
        /\ tracked' = res.state
        /\ last' = Invocation("Import", <<token>>, NullState, res, <<>>)
    /\ UNCHANGED <<provider, query, running, kind, world, pending, issued>>

\* the client's methods called directly
Invoke(c, op, path, payload, w, ch) ==
    CASE op = "Get"    -> Get(c, path, w, ch)
      [] op = "Post"   -> Post(c, path, payload, w, ch)
      [] op = "Patch"  -> Patch(c, path, payload, w, ch)
      [] op = "Delete" -> Delete(c, path, w, ch)
      [] OTHER         -> DoRequest(c, "POST", path, payload, w, ch)

HostCall(op, path, payload, ch) ==
    /\ kind = "client"
    /\ Configure(provider).diags = <<>>
    /\ op \in {"Get", "Delete"} => payload = <<>>
    /\ \E call \in {Invoke(client, op, path, payload, world, ch)} :
        /\ call.legit
        /\ world' = call.world
        /\ last' = [op |-> "Call", plan |-> <<[op |-> op, payload |-> payload]>>,
                    prior |-> NullState, state |-> NullState,
                    diags |-> IF call.ok THEN <<>> ELSE <<"error">>,
                    calls |-> <<call.sent>>, replaced |-> <<>>]
    /\ UNCHANGED <<provider, query, running, kind, tracked, pending, issued>>

\* the remote loses the tracked server out of band
Vanish ==
    /\ kind = "server"
    /\ HasRecord(tracked)
    /\ pending = <<>>
    /\ tracked.val[1].id \in DOMAIN world.servers
    /\ world' = [world EXCEPT !.servers = Without(world.servers, tracked.val[1].id)]
    /\ UNCHANGED <<provider, query, running, kind, tracked, pending, issued, last>>

Next ==
    \/ \E plan \in Plans(kind), ch \in ChoiceSeqs(kind, "Create") : HostCreate(plan, ch)
    \/ \E ch \in ChoiceSeqs(kind, "Read") : HostRead(ch)
    \/ \E plan \in Plans(kind), ch \in ChoiceSeqs(kind, "Update") : HostUpdate(plan, ch)
    \/ \E ch \in ChoiceSeqs(kind, "Delete") : HostDelete(ch)
    \/ \E plan \in Plans(kind), ch \in ChoiceSeqs(kind, "Delete") : HostReplace(plan, ch)
    \/ \E token \in { <<"a",":","c">>, <<"a">>, <<"a",":","c",":","d">>, <<":">>, <<>> } :
           HostImport(token)
    \/ \E config \in Plans(kind), ch \in ChoiceSeqs(kind, "Query") : HostQuery(config, ch)
    \/ \E ch \in ChoiceSeqs(kind, "Logs") : HostLogs(ch)
    \/ \E op \in {"Get", "Post", "Patch", "Delete", "DoRequest"}, path \in { <<"/","x">> },
          payload \in { <<>>, <<[k |-> "v"]>> }, ch \in Choices :
           HostCall(op, path, payload, ch)
    \/ Vanish

Spec == Init /\ [][Next]_vars

----------------------------------------------------------------------------
(* Two handlers on different servers run concurrently with one client.  A   *)
(* handler has no state of its own beyond its locals, so it interleaves     *)
(* with the other one between its round trips.                              *)

\* the remote after POST /servers of PlanA and of PlanB
TwoServers ==
    [servers |-> (403 :> Stored(403, modelToPayload(PlanA)))
                 @@ (404 :> Stored(404, modelToPayload(PlanB))),
     nextId |-> 405, made |-> 2, log |-> <<>>, usage |-> DefaultUsage]

\* the record tracked for remote server id, and the plan of its Update
TrackedOf(id) == apiToModel(TwoServers.servers[id])
UpdateOf(id)  == [TrackedOf(id) EXCEPT !.cpu = 200]

ConcurrentOps == {"Read", "Update", "Delete"}

\* the environment's answers to a concurrent handler
ConcurrentChoices(op) ==
    {ch \in ChoiceSeqs("server", op) : \A i \in 1..2 : ch[i].status \in {0, 200, 404}}

\* a handler the host has started: pc is where it stands, first the answer to
\* the PATCH of an Update, result what it returned
Handlers(id) ==
    UNION { [op : {op}, id : {id}, ch : ConcurrentChoices(op), pc : {"start"},
             first : {<<>>}, result : {<<>>}] : op \in ConcurrentOps }

Outcome(res) == [state |-> res.state, diags |-> res.diags, calls |-> res.calls]

InitConcurrent ==
    /\ kind = "server"
    /\ provider = DefaultConfig
    /\ query = <<>>
    /\ tracked = NullState
    /\ world = TwoServers
    /\ pending = <<>>
    /\ issued = {}
    /\ last = NoInvocation
    /\ running \in [shared : {client}, order : {<<>>},
                    procs : { <<h1, h2>> : h1 \in Handlers(403), h2 \in Handlers(404) }]

\* handler p has run to its end with result res
Finished(p, res) ==
    /\ res.legit
    /\ world' = res.world
    /\ running' = [running EXCEPT !.shared = AfterRequest(@, res.calls),
                                  !.order = Append(@, p),
                                  !.procs[p].pc = "done",
                                  !.procs[p].result = <<Outcome(res)>>]
    /\ UNCHANGED <<provider, query, kind, tracked, pending, issued, last>>

ConcurrentRead(p) ==
    /\ running # <<>>
    /\ running.procs[p].op = "Read" /\ running.procs[p].pc = "start"
    /\ \E h \in {running.procs[p]} :
        Finished(p, ServerRead(running.shared, TrackedOf(h.id), StateOf(TrackedOf(h.id)),
                               world, h.ch))

ConcurrentDelete(p) ==
    /\ running # <<>>
    /\ running.procs[p].op = "Delete" /\ running.procs[p].pc = "start"
    /\ \E h \in {running.procs[p]} :
        Finished(p, ServerDelete(running.shared, TrackedOf(h.id), StateOf(TrackedOf(h.id)),
                                 world, h.ch))

\* the first round trip of Update: a failed PATCH ends the handler
ConcurrentPatch(p) ==
    /\ running # <<>>
    /\ running.procs[p].op = "Update" /\ running.procs[p].pc = "start"
    /\ \E h \in {running.procs[p]} :
       \E call \in {Patch(running.shared, ServerPath(UpdateOf(h.id).id),
                          <<modelToPayload(UpdateOf(h.id))>>, world, h.ch[1])} :
        IF ~call.ok
        THEN Finished(p, ServerUpdate(running.shared, UpdateOf(h.id), TrackedOf(h.id),
                                      StateOf(TrackedOf(h.id)), world, h.ch))
        ELSE /\ call.legit
             /\ world' = call.world
             /\ running' = [running EXCEPT !.shared = AfterRequest(@, <<call.sent>>),
                                           !.order = Append(@, p),
                                           !.procs[p].pc = "patched",
                                           !.procs[p].first = <<call>>]
             /\ UNCHANGED <<provider, query, kind, tracked, pending, issued, last>>

\* the second half of Update: r.Read, then the State of its response
ConcurrentRefresh(p) ==
    /\ running # <<>>
    /\ running.procs[p].pc = "patched"
    /\ \E h \in {running.procs[p]} :
        Finished(p, Refreshed(h.first[1],
                              ServerRead(running.shared, TrackedOf(h.id), ZeroState,
                                         world, <<h.ch[2]>>)))

NextConcurrent ==
    \/ \E p \in 1..2 : ConcurrentRead(p)
    \/ \E p \in 1..2 : ConcurrentDelete(p)
    \/ \E p \in 1..2 : ConcurrentPatch(p)
    \/ \E p \in 1..2 : ConcurrentRefresh(p)

SpecConcurrent == InitConcurrent /\ [][NextConcurrent]_vars

----------------------------------------------------------------------------
(* Properties *)

\* the round trips of the last invocation that were answered with a status
Answered(call) == ~call.transport
Failed(call)   == call.transport \/ call.status \notin 200..299

\* C1 (as stated): whenever the GET of ServerResource.Read is answered with a
\* failure status other than 404, whatever the body, Read reports an error and
\* leaves the tracked record as it was.
C1_ReadFailureIsHardError ==
    (/\ kind = "server" /\ last.op = "Read" /\ last.calls # <<>>
     /\ Answered(last.calls[1]) /\ Failed(last.calls[1])
     /\ last.calls[1].status # 404)
    => (last.diags # <<>> /\ last.state = last.prior)

\* C1, the failing input: GET answered 500 with the body "id 404"; Read removes
\* the record and reports nothing
C1_RemovedOn500 ==
    /\ kind = "server" /\ last.op = "Read" /\ last.calls # <<>>
    /\ Answered(last.calls[1]) /\ last.calls[1].status = 500
    /\ last.calls[1].body.text = <<"i","d"," ","4","0","4">>
    /\ HasRecord(last.prior)
    /\ last.diags = <<>> /\ last.state = NullState /\ tracked = NullState

\* C2: whenever the GET of ServerResource.Read is answered 404, Read removes the
\* record from tracked state and reports no error.
C2_ReadNotFoundRemoves ==
    (/\ kind = "server" /\ last.op = "Read" /\ last.calls # <<>>
     /\ Answered(last.calls[1]) /\ last.calls[1].status = 404)
    => (last.state = NullState /\ last.diags = <<>>)

C2_ReadAnswered404 ==
    /\ kind = "server" /\ last.op = "Read" /\ last.calls # <<>>
    /\ Answered(last.calls[1]) /\ last.calls[1].status = 404
    /\ last.calls[1].method = "GET"
    /\ HasRecord(last.prior) /\ tracked = NullState

\* C3: ServerResource.Delete reports no error when DELETE /servers/{i} is
\* answered 404, so a Delete of a server that is already gone succeeds and the
\* host drops the record.
C3_DeleteNotFoundSucceeds ==
    (/\ kind = "server" /\ last.op = "Delete" /\ last.calls # <<>>
     /\ Answered(last.calls[1]) /\ last.calls[1].status = 404)
    => (last.diags = <<>> /\ tracked = NullState)

\* a Delete of a server the remote no longer holds, answered 404
C3_DeleteOfGoneServer ==
    /\ kind = "server" /\ last.op = "Delete" /\ last.calls # <<>>
    /\ Answered(last.calls[1]) /\ last.calls[1].status = 404
    /\ last.calls[1].method = "DELETE"
    /\ HasRecord(last.prior)
    /\ last.prior.val[1].id \notin DOMAIN world.servers
    /\ last.diags = <<>> /\ tracked = NullState

\* C4 (as stated): every failed client call of every adapter operation is
\* reported as an error, except a 404 answer during ServerResource.Read and a
\* 404 answer during ServerResource.Delete.
C4_FailuresAreErrors ==
    \A i \in 1..Len(last.calls) :
        Failed(last.calls[i]) =>
            \/ last.diags # <<>>
            \/ /\ kind = "server" /\ last.op \in {"Read", "Delete"}
               /\ Answered(last.calls[i]) /\ last.calls[i].status = 404

\* C4, the failing input: DELETE answered 500 with the body "id 404"; Delete
\* reports success, the host drops the record, the remote still holds the server
C4_DeleteSucceedsOn500 ==
    /\ kind = "server" /\ last.op = "Delete" /\ last.calls # <<>>
    /\ Answered(last.calls[1]) /\ last.calls[1].status = 500
    /\ HasRecord(last.prior)
    /\ last.prior.val[1].id \in DOMAIN world.servers
    /\ last.diags = <<>> /\ tracked = NullState

\* C5 (as stated): whenever Create, Read, Update or Delete reports an error, the
\* state it leaves is the state it was given: nothing new, changed or emptied.
C5_AllOrNothing ==
    (last.op \in {"Create", "Read", "Update", "Delete"} /\ last.diags # <<>>)
    => (last.state = last.prior /\ tracked = last.prior)

\* C5, the failing input: Update whose PATCH is applied and whose GET then fails
C5_UpdateErrorEmptiesRecord ==
    /\ kind = "server" /\ last.op = "Update" /\ Len(last.calls) = 2
    /\ last.calls[1].method = "PATCH" /\ last.calls[1].ok
    /\ last.calls[2].method = "GET" /\ Failed(last.calls[2])
    /\ last.diags # <<>>
    /\ HasRecord(last.prior) /\ ~HasRecord(tracked)

\* C6 (as stated): a record keeps the id it was assigned across every Read and
\* Update, whatever id the remote's response carries.
C6_IdentityStable ==
    (/\ last.op \in {"Read", "Update"} /\ HasRecord(last.prior) /\ HasRecord(last.state)
     /\ kind \in ActionKinds => last.prior.val[1].id # <<>>)
    => last.state.val[1].id = last.prior.val[1].id

\* C6, the failing input: a Read answered 2xx with a body whose id differs
C6_ReadAdoptsRemoteId ==
    /\ kind = "server" /\ last.op = "Read" /\ last.calls # <<>>
    /\ last.calls[1].ok /\ last.diags = <<>>
    /\ HasRecord(last.prior) /\ HasRecord(tracked)
    /\ last.calls[1].body.attrs.id # last.prior.val[1].id
    /\ tracked.val[1].id = last.calls[1].body.attrs.id

\* C7 (as stated): Update is never invoked with a plan that differs from the
\* prior record in a RequiresReplace attribute, and the record made by the
\* Create of a replacement has an id different from the deleted record's.
C7_ReplacementIsolation ==
    /\ last.op = "Update" =>
           \A f \in RequiresReplace(kind) : last.plan[1][f] = last.prior.val[1][f]
    /\ (last.op = "Create" /\ last.replaced # <<>> /\ HasRecord(last.state)) =>
           last.state.val[1].id # last.replaced[1].id

\* C7, the failing input: a startup variable replaced by one with another
\* server_id and another key, and the same id
C7_ReplacementKeepsId ==
    /\ kind = "var" /\ last.op = "Create" /\ last.replaced # <<>>
    /\ HasRecord(tracked)
    /\ last.plan[1].server_id # last.replaced[1].server_id
    /\ last.plan[1].key # last.replaced[1].key
    /\ tracked.val[1].id = last.replaced[1].id

\* C8 (as stated): two distinct (server id, suffix) pairs never get the same
\* synthetic id.
C8_SyntheticIdsDistinct ==
    \A a \in issued, b \in issued :
        (a.p # b.p \/ a.s # b.s) => a.id # b.id

\* C8, the failing input: ("a", "-var-b-var-c") and ("a-var-b", "-var-c")
C8_Collision ==
    \E a \in issued, b \in issued :
        /\ a.p = <<"a">> /\ b.p = <<"a","-","v","a","r","-","b">>
        /\ a.s # b.s /\ a.id = b.id

\* C9: after a successful Create or Update of an action-type resource the id is
\* the planned server_id followed by the resource's suffix, whatever the remote
\* answered and whatever happened before.
C9_SyntheticIdFromPlan ==
    (kind \in ActionKinds /\ last.op \in {"Create", "Update"} /\ last.diags = <<>>)
    => /\ HasRecord(last.state)
       /\ last.state.val[1].id =
              last.plan[1].server_id \o DocumentedSuffix(kind, last.plan[1])

\* a successful Update of a startup variable, after an earlier call, answered 299
C9_VariableUpdated ==
    /\ kind = "var" /\ last.op = "Update" /\ last.diags = <<>>
    /\ last.calls # <<>> /\ last.calls[1].status = 299
    /\ HasRecord(last.prior) /\ HasRecord(tracked)
    /\ tracked.val[1].id = last.plan[1].server_id \o <<"-","v","a","r","-">> \o last.plan[1].key

HasSuffix(s, x) == Len(s) >= Len(x) /\ SubSeq(s, Len(s) - Len(x) + 1, Len(s)) = x

\* C11 (as stated): whenever a client call fails because the status is outside
\* [200, 300), its error is "API error <status>: <raw response body>": the
\* numeric status and the body, not the status phrase.
C11_ErrorCarriesStatusAndBody ==
    \A i \in 1..Len(last.calls) :
        (Answered(last.calls[i]) /\ Failed(last.calls[i])) =>
            last.calls[i].err =
                API_ERROR \o FormatInt(last.calls[i].status) \o <<":", " ">>
                \o last.calls[i].body.text

\* C11, the failing input: DoRequest answered 404 with the body "no"; the error
\* carries the status phrase and not the body
C11_DoRequestCarriesPhrase ==
    /\ kind = "client" /\ last.op = "Call" /\ last.plan[1].op = "DoRequest"
    /\ Answered(last.calls[1]) /\ last.calls[1].status = 404
    /\ last.calls[1].body.text = <<"n","o">>
    /\ Contains(last.calls[1].err, <<"N","o","t"," ","F","o","u","n","d">>)
    /\ ~Contains(last.calls[1].err, <<"n","o">>)

C13_Headers ==
    \A i \in 1..Len(last.calls) :
        /\ last.calls[i].authorization = BEARER \o client.APIKey
        /\ last.calls[i].accept = "application/json"
        /\ last.calls[i].contentType = "application/json" <=> last.calls[i].payload # <<>>
        /\ last.calls[i].contentType \in {"application/json", ""}

\* C13, the failing input: DoRequest with a nil body sends a Content-Type
C13_DoRequestContentTypeWithoutBody ==
    /\ kind = "client" /\ last.op = "Call" /\ last.plan[1].op = "DoRequest"
    /\ last.calls[1].payload = <<>>
    /\ last.calls[1].contentType = "application/json"

\* C14: the base URL ends in /api/client when use_application is false and in
\* /api/application when it is true or not set, and every request's URL is
\* that base URL followed by the path.
C14_BaseURL ==
    \A i \in 1..Len(last.calls) :
        /\ last.calls[i].url =
               TrimRightSlash(IF provider.host = <<>> THEN DEFAULT_HOST ELSE provider.host)
               \o (IF provider.use_application.null \/ provider.use_application.v
                   THEN API_APPLICATION ELSE API_CLIENT)
               \o last.calls[i].path
        /\ HasSuffix(last.calls[i].url,
                     (IF provider.use_application = Known(FALSE)
                      THEN <<"/","a","p","i","/","c","l","i","e","n","t">>
                      ELSE <<"/","a","p","i","/","a","p","p","l","i","c","a","t","i","o","n">>)
                     \o last.calls[i].path)

\* C14: a request sent with use_application set to false
C14_ClientMode ==
    /\ kind = "client" /\ provider.use_application = Known(FALSE)
    /\ provider.host = <<"h","/">>
    /\ last.op = "Call"
    /\ last.calls[1].url = <<"h","/","a","p","i","/","c","l","i","e","n","t","/","x">>

\* C15: Read of an action-type resource sends no request and returns a record
\* equal in every field to the record it was given.
C15_ActionReadIsIdentity ==
    (kind \in ActionKinds /\ last.op = "Read")
    => (last.calls = <<>> /\ last.diags = <<>> /\ last.state = last.prior
        /\ HasRecord(last.state))

\* C15: a Read of a rename record that has a description
C15_RenameRead ==
    /\ kind = "rename" /\ last.op = "Read" /\ HasRecord(last.prior)
    /\ ~last.prior.val[1].description.null
    /\ tracked = last.prior /\ last.calls = <<>>

\* C16: Delete of an action-type resource sends no request, reports no error
\* and leaves the remote as it is; the step only drops the local record.
C16_ActionDeleteIsLocal ==
    [][ (kind \in ActionKinds /\ HasRecord(tracked) /\ last'.op = "Delete")
        => (/\ last'.calls = <<>> /\ last'.diags = <<>>
            /\ world' = world /\ issued' = issued /\ provider' = provider /\ query' = query
              /\ running' = running
            /\ tracked' = NullState) ]_vars

\* C16: a startup-variable record just deleted
C16_VariableDeleted ==
    /\ kind = "var" /\ last.op = "Delete" /\ HasRecord(last.prior)
    /\ last.calls = <<>> /\ last.diags = <<>> /\ tracked = NullState

\* the method, path and payload of a round trip
Req(call) == <<call.method, call.path, call.payload>>

\* C17: for an action-type resource, Update sends the method, path and payload
\* that Create sends for the same planned record and, answered alike, yields
\* the same record; the server's Update sends PATCH /servers/{id}.
C17_UpdateAsCreate ==
    /\ (kind \in ActionKinds /\ last.op = "Update") =>
           \A ch \in ChoiceSeqs(kind, "Create") :
               LET c == DoCreate(kind, last.plan[1], NullState, world, ch) IN
               /\ Len(c.calls) = 1 /\ Len(last.calls) = 1
               /\ Req(c.calls[1]) = Req(last.calls[1])
               /\ (c.calls[1].status = last.calls[1].status
                   /\ c.calls[1].transport = last.calls[1].transport
                   /\ ~HasError(c))
                  => c.state = last.state
    /\ (kind = "server" /\ last.op = "Update") =>
           /\ last.calls[1].method = "PATCH"
           /\ last.calls[1].path = <<"/","s","e","r","v","e","r","s","/">>
                                   \o FormatInt(last.prior.val[1].id)

\* C17: a successful Update of a reinstall record with force set
C17_ReinstallUpdated ==
    /\ kind = "reinstall" /\ last.op = "Update" /\ last.diags = <<>>
    /\ last.plan[1].force = Known(TRUE)
    /\ last.calls[1].method = "POST"
    /\ last.calls[1].payload = <<[force |-> TRUE]>>
    /\ HasRecord(tracked)

\* C18 (as stated): Create and Read of the server report a decode error and
\* commit nothing whenever the 2xx body lacks a field of the record.
C18_MissingFieldIsDecodeError ==
    (/\ kind = "server" /\ last.op \in {"Create", "Read"} /\ last.calls # <<>>
     /\ last.calls[1].ok /\ last.calls[1].body.present # ServerFields)
    => (last.diags # <<>> /\ last.state = last.prior)

\* C18, the failing input: POST /servers answered 200 with a body that has no
\* id; Create commits a record with id 0
C18_CreateCommitsZeroId ==
    /\ kind = "server" /\ last.op = "Create" /\ last.calls # <<>>
    /\ last.calls[1].ok /\ last.calls[1].body.wf
    /\ "id" \notin last.calls[1].body.present
    /\ last.diags = <<>> /\ HasRecord(tracked) /\ tracked.val[1].id = 0

\* C19: ImportState of a startup variable succeeds exactly when the token has
\* one ':'; then server_id is what precedes it and key what follows; otherwise
\* it reports an error and sets nothing.
C19_ImportSplitsOnColon ==
    (kind = "var" /\ last.op = "Import") =>
        LET token  == last.plan[1]
            colons == {i \in 1..Len(token) : token[i] = ":"}
        IN  IF Cardinality(colons) = 1
            THEN /\ last.diags = <<>> /\ HasRecord(last.state)
                 /\ \A i \in colons :
                        /\ last.state.val[1].server_id = SubSeq(token, 1, i - 1)
                        /\ last.state.val[1].key = SubSeq(token, i + 1, Len(token))
            ELSE last.diags # <<>> /\ last.state = NullState

\* C19: the token "a:c" imported
C19_Imported ==
    /\ kind = "var" /\ last.op = "Import" /\ last.plan[1] = <<"a",":","c">>
    /\ HasRecord(tracked)
    /\ tracked.val[1].server_id = <<"a">> /\ tracked.val[1].key = <<"c">>

\* the positions of the entries of a data array that Read keeps
Retained(data) ==
    {i \in 1..Len(data) :
        /\ data[i].event = "console output" /\ Len(data[i].args) > 0
        /\ stripANSI(TrimSpace(data[i].args[1])) # <<>>}

\* C20: the activity-logs result lists the retained entries in the exact
\* reverse of the order of the API's data array: the entry kept from position
\* i stands after exactly the entries kept from later positions.
C20_LogsNewestFirst ==
    (last.op = "Logs" /\ last.diags = <<>>) =>
        LET data == last.calls[1].body.data
            logs == last.state.val[1].logs
        IN  /\ Len(logs) = Cardinality(Retained(data))
            /\ \A i \in Retained(data) :
                   logs[Cardinality({k \in Retained(data) : k >= i})]
                       = stripANSI(TrimSpace(data[i].args[1]))

\* C20: the data array [boot ok (coloured), ready] gives [ready, boot ok]
C20_ReadyBeforeBootOk ==
    /\ last.op = "Logs" /\ last.diags = <<>>
    /\ Len(last.calls[1].body.data) = 2
    /\ last.calls[1].body.data[1].args = <<BOOT_OK>>
    /\ last.calls[1].body.data[2].args = <<READY>>
    /\ tracked.val[1].logs = <<READY, <<"b","o","o","t"," ","o","k">>>>

\* C21 (as stated): no entry of the activity-logs output is blank and none
\* contains a colour escape sequence, whatever the API returned.
C21_NoBlankNoEscape ==
    (last.op = "Logs" /\ last.diags = <<>>) =>
        \A i \in 1..Len(last.state.val[1].logs) :
            LET line == last.state.val[1].logs[i]
            IN  /\ TrimSpace(line) # <<>>
                /\ \A j \in 1..Len(line) : MatchEnd(SubSeq(line, j, Len(line))) = 0

\* C21, the failing input: an entry of colour codes around a blank is kept
\* as a line of one space
C21_BlankLineKept ==
    /\ last.op = "Logs" /\ last.diags = <<>>
    /\ \E i \in 1..Len(tracked.val[1].logs) : tracked.val[1].logs[i] = <<" ">>

\* C22 (as stated): the count sent in the logs parameter is 50 when lines is
\* not configured, and for every configured value it lies in 1..100.
C22_LinesBounded ==
    (last.op = "Logs" /\ last.calls # <<>>) =>
        \E n \in 1..100 :
            /\ last.calls[1].path = SERVERS_SLASH \o last.plan[1].server_id
                                      \o PATH_WEBSOCKET \o QUERY_LOGS \o FormatInt(n)
            /\ last.plan[1].lines.null => n = 50

\* C22, the failing input: lines = -1 is sent as logs=-1
C22_NegativeSent ==
    /\ last.op = "Logs" /\ last.calls # <<>>
    /\ last.plan[1].lines = Known(0 - 1)
    /\ HasSuffix(last.calls[1].path, <<"l","o","g","s","=","-","1">>)

C24_PayloadRoundTrip ==
    (/\ kind = "server" /\ last.op \in {"Create", "Read", "Update"}
     /\ last.diags = <<>> /\ HasRecord(last.state)
     /\ last.calls[Len(last.calls)].body.present = ServerFields)
    => \A f \in ServerFields \ {"id"} :
           modelToPayload(last.state.val[1])[f] = last.calls[Len(last.calls)].body.attrs[f]

\* C24: a record decoded from a response for the server named beta with memory
\* 2048 and disk 2048
C24_DecodedBeta ==
    /\ kind = "server" /\ last.op \in {"Create", "Read", "Update"} /\ last.diags = <<>>
    /\ HasRecord(tracked)
    /\ last.calls[Len(last.calls)].body.present = ServerFields
    /\ last.calls[Len(last.calls)].body.attrs.name = "beta"
    /\ modelToPayload(tracked.val[1]).name = "beta"
    /\ modelToPayload(tracked.val[1]).memory = 2048

\* the result of handler h when it runs alone against the two servers
Alone(h) ==
    CASE h.op = "Read"   -> ServerRead(client, TrackedOf(h.id), StateOf(TrackedOf(h.id)),
                                       TwoServers, h.ch)
      [] h.op = "Delete" -> ServerDelete(client, TrackedOf(h.id), StateOf(TrackedOf(h.id)),
                                         TwoServers, h.ch)
      [] OTHER           -> ServerUpdate(client, UpdateOf(h.id), TrackedOf(h.id),
                                         StateOf(TrackedOf(h.id)), TwoServers, h.ch)

C27_EveryAdapterRegistered ==
    kind \in Kinds \ {"client"} => kind \in Resources \cup DataSources

\* C27, the failing input: the power adapter, which Resources does not list
C27_PowerNotRegistered ==
    kind = "power" /\ kind \notin Resources /\ last.op = "none"

C29_ImportAssignsIdentity ==
    (kind \in ImportKinds /\ last.op = "Read" /\ last.diags = <<>> /\ HasRecord(last.state))
    => last.state.val[1].id
           = last.state.val[1].server_id \o DocumentedSuffix(kind, last.state.val[1])

\* C29, the failing input: the power resource imported as "a" and read, with
\* no id
C29_ImportedWithoutId ==
    /\ kind = "power" /\ last.op = "Read" /\ last.diags = <<>>
    /\ issued = {}
    /\ HasRecord(tracked) /\ tracked.val[1].server_id = <<"a">>
    /\ tracked.val[1].id = <<>>

\* C30: in every activity-logs result logs and timestamps have the same length,
\* and each position holds the line and the timestamp of the same API entry,
\* after the filtering and the reversal.
C30_TimestampsPaired ==
    (last.op = "Logs" /\ last.diags = <<>>) =>
        LET data == last.calls[1].body.data
            out  == last.state.val[1]
        IN  /\ Len(out.timestamps) = Len(out.logs)
            /\ Len(out.logs) = Cardinality(Retained(data))
            /\ \A i \in Retained(data) :
                   LET pos == Cardinality({k \in Retained(data) : k >= i})
                   IN  /\ out.timestamps[pos] = data[i].timestamp
                       /\ out.logs[pos] = stripANSI(TrimSpace(data[i].args[1]))

\* C30: boot ok at t1, a blank line, ready at t2 give the lines [ready, boot ok]
\* with the timestamps [t2, t1]
C30_PairedAcrossBlank ==
    /\ last.op = "Logs" /\ last.diags = <<>>
    /\ Len(last.calls[1].body.data) = 3
    /\ last.calls[1].body.data[1].timestamp = "t1"
    /\ last.calls[1].body.data[2].timestamp = "t4"
    /\ last.calls[1].body.data[3].timestamp = "t2"
    /\ tracked.val[1].logs = <<READY, <<"b","o","o","t"," ","o","k">>>>
    /\ tracked.val[1].timestamps = <<"t2", "t1">>

====
